---- MODULE Spec2Model ----
(***************************************************************************)
(* The in-process log event bus of zondarr: the LogBuffer ring buffer      *)
(* (core/log_buffer.py), the structlog capture processor that feeds it     *)
(* from arbitrary threads, and the SSE stream session that reads it        *)
(* (api/logs.py).                                                          *)
(*                                                                         *)
(* Every `with self._lock:` block of LogBuffer is one atomic action: all   *)
(* accesses to _deque and _seq are made under that lock, so the blocks are *)
(* serialised; SpecLock makes the acquisition of the lock a step of its    *)
(* own.  Strings are modelled as sequences of one-character strings, so    *)
(* that str.startswith is a real prefix test.                              *)
(***************************************************************************)
EXTENDS Integers, Sequences, FiniteSets, TLC

\* ------------------------------------------------------------------ bounds
\* Capacity of the ring buffer (LogBuffer(maxlen=...)).
maxlen == 2

\* Total number of captures the producers perform (caps the seq counter).
MaxCaptures == 3

\* Producer threads and stream sessions.
Threads == {"t1", "t2"}

Sessions == {"s1", "s2"}

\* The connection that is opened while the producers run concurrently.
OneSession == {"s1"}

\* Coroutines on the loop that call log_buffer.wait_for_new(timeout) directly.
Waiters == {"w1", "w2"}

\* ------------------------------------------------------------- data model
\* str.startswith
StartsWith(s, p) == Len(p) <= Len(s) /\ SubSeq(s, 1, Len(p)) = p

\* Marks a key that is absent from the event dict / an absent query parameter.
None == "<None>"

UpperMap ==
    [debug |-> "DEBUG", info |-> "INFO", error |-> "ERROR", Error |-> "ERROR",
     bogus |-> "BOGUS"]

\* str.upper on the level strings the model feeds in.
Upper(s) == IF s \in DOMAIN UpperMap THEN UpperMap[s] ELSE s

\* The log records a producer thread emits: the "level" and "_logger" keys of
\* the event dict.  Each thread logs through its own logger.
EventDicts(t) ==
    IF t = "t1" THEN { [level |-> "debug", logger |-> <<"a", "x">>] }
    ELSE { [level |-> "ERROR", logger |-> <<"b">>] }

_LEVEL_ORDER ==
    [DEBUG |-> 10, INFO |-> 20, WARNING |-> 30, ERROR |-> 40, CRITICAL |-> 50]

\* _LEVEL_ORDER.get(level, 0)
LevelRank(l) == IF l \in DOMAIN _LEVEL_ORDER THEN _LEVEL_ORDER[l] ELSE 0

\* A value whose __str__ raises.
Unprintable == "<unprintable>"

\* The keys of an event dict other than level and _logger, as <<key, value>>
\* pairs in the dict's order; none for a dict the model gives no such key.
Extra(ev) == IF "extra" \in DOMAIN ev THEN ev.extra ELSE <<>>

_KNOWN_KEYS_without_record ==
    {"event", "level", "timestamp", "_logger", "_from_structlog"}

_KNOWN_KEYS ==
    {"event", "level", "timestamp", "_logger", "_record", "_from_structlog"}

StrMap == [int7 |-> "7", true |-> "True", none |-> "None"]

\* str(value) on the values the model feeds in: a str is returned as it is,
\* other objects are rendered.
Str(v) == IF v \in DOMAIN StrMap THEN StrMap[v] ELSE v

\* The `fields` dict capture_log_processor collects: every item of the event
\* dict whose key is not in _KNOWN_KEYS, its value stringified, in dict order.
Fields(ev) ==
    LET Kept(item) == item[1] \notin _KNOWN_KEYS
        items == SelectSeq(Extra(ev), Kept)
    IN  [i \in 1..Len(items) |-> <<items[i][1], Str(items[i][2])>>]

\* LogEntry(seq=..., level=..., logger_name=..., fields=...) as
\* capture_log_processor builds it from the event dict.
LogEntry(s, ev) ==
    [seq         |-> s,
     level       |-> IF ev.level = None THEN "INFO" ELSE Upper(ev.level),
     logger_name |-> ev.logger,
     fields      |-> Fields(ev)]

NoEntry == [seq |-> 0, level |-> None, logger_name |-> <<>>, fields |-> <<>>]

\* The seq values of a list of entries, in list order.
Seqs(es) == [i \in 1..Len(es) |-> es[i].seq]

\* ------------------------------------------------------------------ state
VARIABLES
    deque,      \* LogBuffer._deque: the retained entries, oldest insertion first
    seq,        \* LogBuffer._seq: the global sequence counter
    bound,      \* LogBuffer._loop / _condition are set (bind_loop was called)
    callbacks,  \* _notify callbacks posted to the loop, not yet run
    tasks,      \* _do_notify tasks created, not yet run
    wpc,        \* per direct caller of wait_for_new: where its call stands
    tpc,        \* per producer thread: position inside capture_log_processor
    tentry,     \* per producer thread: the LogEntry it is capturing
    assigned,   \* per producer thread: the values next_seq returned to it
    tdict,      \* per producer thread: <<event_dict>> of its latest call
    tret,       \* per producer thread: how that call ended, <<>> until it has
    evicted,    \* the seq values of the entries the deque has dropped
    spc,        \* per session: position inside stream_logs._generate
    min_level,  \* per session: the rank computed from the level parameter
    source,     \* per session: the source parameter
    last_seq,   \* per session: the cursor
    pending,    \* per session: filtered entries the running for-loop still yields
    emitted,    \* per session: the seq of every data frame sent so far
    heartbeats, \* per session: the number of heartbeat comment frames sent
    lastRead,   \* what a direct get_entries_since call returns in this step
    flt,        \* one stream_logs filter computation: its arguments and results
    lock        \* who is inside a `with self._lock` block, "free" if nobody

vars == <<deque, seq, bound, callbacks, tasks, wpc, tpc, tentry, assigned, tdict,
          tret, evicted,
          spc, min_level, source, last_seq, pending, emitted, heartbeats,
          lastRead, flt, lock>>

bufferVars == <<deque, seq, evicted>>

bridgeVars == <<bound, callbacks, tasks, wpc>>

producerVars == <<tpc, tentry, assigned, tdict, tret>>

sessionVars ==
    <<spc, min_level, source, last_seq, pending, emitted, heartbeats>>

\* The value of lastRead in a step in which no direct call returns.
NoRead == [after_seq |-> -1, entries |-> <<>>, current_seq |-> -1]

\* -------------------------------------------------------------- LogBuffer
\* An append that never evicts.
DequeAppendUnbounded(d, e) == Append(d, e)

\* An append that evicts one item too late.
DequeAppendLate(d, e) ==
    IF maxlen = 0 THEN d
    ELSE IF Len(d) > maxlen THEN Append(Tail(d), e)
    ELSE Append(d, e)

\* deque(maxlen=maxlen).append(entry): a full deque drops its leftmost item.
DequeAppend(d, e) ==
    IF maxlen = 0 THEN d
    ELSE IF Len(d) >= maxlen THEN Append(Tail(d), e)
    ELSE Append(d, e)

\* What deque.append(e) discards from d.
DequeDropped(d, e) ==
    IF maxlen = 0 THEN {e.seq}
    ELSE IF Len(d) >= maxlen THEN {Head(d).seq}
    ELSE {}

\* An append that, once the deque is full, discards the new item.
DequeAppendKeepingOldest(cap, d, e) ==
    IF Len(d) >= cap THEN d ELSE Append(d, e)

\* deque(maxlen=cap).append(entry), for a LogBuffer built with capacity cap.
DequeAppendTo(cap, d, e) ==
    IF cap = 0 THEN d
    ELSE IF Len(d) >= cap THEN Append(Tail(d), e)
    ELSE Append(d, e)

\* What deque(maxlen=cap).append(e) discards from d.
DequeDroppedFrom(cap, d, e) ==
    IF cap = 0 THEN {e.seq}
    ELSE IF Len(d) >= cap THEN {Head(d).seq}
    ELSE {}

\* A next_seq that loses its increment.
NextSeqNoIncrement(c) == c

\* A next_seq that leaves a gap after every value.
NextSeqValueSkipping(c) == c + 2

\* The body of next_seq: the new value of _seq, which is also returned.
NextSeqValue(c) == c + 1

\* A read that also returns the entry at the cursor.
get_entries_since_inclusive(d, c, after_seq) ==
    LET After(e) == e.seq >= after_seq
    IN  [entries |-> SelectSeq(d, After), current_seq |-> c]

\* A read that skips the entry right after the cursor.
get_entries_since_skipping(d, c, after_seq) ==
    LET After(e) == e.seq > after_seq + 1
    IN  [entries |-> SelectSeq(d, After), current_seq |-> c]

\* A read that reports a counter value one past the counter.
get_entries_since_ahead(d, c, after_seq) ==
    LET After(e) == e.seq > after_seq
    IN  [entries |-> SelectSeq(d, After), current_seq |-> c + 1]

\* A read whose counter value is older than its entries.
get_entries_since_torn(d, c, after_seq) ==
    LET After(e) == e.seq > after_seq
    IN  [entries |-> SelectSeq(d, After),
         current_seq |-> IF c > 0 THEN c - 1 ELSE 0]

\* LogBuffer.get_entries_since(after_seq), on buffer contents d and counter c.
get_entries_since(d, c, after_seq) ==
    LET After(e) == e.seq > after_seq
    IN  [entries |-> SelectSeq(d, After), current_seq |-> c]

\* ------------------------------------------------------------ api/logs.py
\* A filter that also drops the entries at exactly the minimum level.
_filter_entries_above(entries, minLevel, src) ==
    LET Keep(e) ==
            /\ ~(LevelRank(e.level) <= minLevel)
            /\ ~(src # None /\ src # <<>> /\ ~StartsWith(e.logger_name, src))
    IN  SelectSeq(entries, Keep)

\* _filter_entries(entries, min_level, source)
_filter_entries(entries, minLevel, src) ==
    LET Keep(e) ==
            /\ ~(LevelRank(e.level) < minLevel)
            /\ ~(src # None /\ src # <<>> /\ ~StartsWith(e.logger_name, src))
    IN  SelectSeq(entries, Keep)

\* A rank looked up without upper-casing the parameter.
MinLevelOfCaseSensitive(level) ==
    IF level = None \/ level = "" THEN 0 ELSE LevelRank(level)

\* min_level = _LEVEL_ORDER.get(level.upper(), 0) if level else 0
MinLevelOf(level) ==
    IF level = None \/ level = "" THEN 0 ELSE LevelRank(Upper(level))

\* The query parameters a client may connect with.
LevelParams == {None, "info"}

SourceParams == {None, <<"a">>}

\* The keywords _generate passes to wait_for_new, and the parameters
\* LogBuffer.wait_for_new declares.
WaitCallKeywords == {"after_seq", "timeout"}

WaitForNewParams == {"timeout"}

\* -------------------------------------------------------------------- Init
InitBuffer ==
    /\ deque = <<>>
    /\ seq = 0
    /\ bound = FALSE
    /\ callbacks = 0
    /\ tasks = 0
    /\ tpc = [t \in Threads |-> "idle"]
    /\ tentry = [t \in Threads |-> NoEntry]
    /\ assigned = [t \in Threads |-> <<>>]
    /\ tdict = [t \in Threads |-> <<>>]
    /\ tret = [t \in Threads |-> <<>>]
    /\ evicted = {}
    /\ spc = [s \in Sessions |-> "init"]
    /\ min_level = [s \in Sessions |-> 0]
    /\ source = [s \in Sessions |-> None]
    /\ last_seq = [s \in Sessions |-> 0]
    /\ pending = [s \in Sessions |-> <<>>]
    /\ emitted = [s \in Sessions |-> <<>>]
    /\ heartbeats = [s \in Sessions |-> 0]
    /\ wpc = [w \in Waiters |-> "idle"]
    /\ lock = "free"
    /\ lastRead = NoRead

\* The value of flt while no filter computation is looked at.
NoFilterCall ==
    [pc |-> "off", entries |-> <<>>, level |-> None, source |-> None,
     min_level |-> 0, kept |-> <<>>]

Init == InitBuffer /\ flt = NoFilterCall

\* ---------------------------------------------------------------- producers
\* The extraction of capture_log_processor raises: str(...) fails on the
\* level, the timestamp or the event, or on the value of a key outside
\* _KNOWN_KEYS; the values of the other reserved keys are never stringified.
Raises(ev) ==
    \/ ev.level = Unprintable
    \/ \E i \in 1..Len(Extra(ev)) :
           /\ Extra(ev)[i][2] = Unprintable
           /\ \/ Extra(ev)[i][1] \in {"timestamp", "event"}
              \/ Extra(ev)[i][1] \notin _KNOWN_KEYS

\* `return event_dict`: the dict object it was given, which it never wrote to.
ReturnValue(ev) == ev

\* capture_log_processor, up to and including log_buffer.next_seq(): the
\* fields are extracted from the event dict and the seq is allocated.
CaptureNextSeq(t, ev) ==
    /\ tpc[t] = "idle"
    /\ seq < MaxCaptures
    /\ ~Raises(ev)
    /\ tdict' = [tdict EXCEPT ![t] = <<ev>>]
    /\ tret' = [tret EXCEPT ![t] = <<>>]
    /\ seq' = NextSeqValue(seq)
    /\ tentry' = [tentry EXCEPT ![t] = LogEntry(seq', ev)]
    /\ assigned' = [assigned EXCEPT ![t] = Append(@, seq')]
    /\ tpc' = [tpc EXCEPT ![t] = "allocated"]
    /\ UNCHANGED <<deque, evicted, bridgeVars, sessionVars>>
    /\ lastRead' = NoRead
    /\ lock' = "free"
    /\ UNCHANGED flt

\* An append that holds back while a session still has a batch to yield.
CaptureAppendAfterSessions(t) ==
    /\ tpc[t] = "allocated"
    /\ \A s \in Sessions : pending[s] = <<>>
    /\ deque' = DequeAppend(deque, tentry[t])
    /\ evicted' = evicted \cup DequeDropped(deque, tentry[t])
    /\ tpc' = [tpc EXCEPT ![t] = "appended"]
    /\ UNCHANGED <<seq, tentry, assigned, tdict, tret, bridgeVars, sessionVars>>
    /\ lastRead' = NoRead
    /\ lock' = "free"
    /\ UNCHANGED flt

\* LogBuffer.append, the locked block: self._deque.append(entry).
CaptureAppend(t) ==
    /\ tpc[t] = "allocated"
    /\ deque' = DequeAppend(deque, tentry[t])
    /\ evicted' = evicted \cup DequeDropped(deque, tentry[t])
    /\ tpc' = [tpc EXCEPT ![t] = "appended"]
    /\ UNCHANGED <<seq, tentry, assigned, tdict, tret, bridgeVars, sessionVars>>
    /\ lastRead' = NoRead
    /\ lock' = "free"
    /\ UNCHANGED flt

\* An append that posts its wakeup first and inserts afterwards.
CaptureSignalThenInsert(t) ==
    /\ tpc[t] = "allocated"
    /\ callbacks' = IF bound THEN callbacks + 1 ELSE callbacks
    /\ deque' = DequeAppend(deque, tentry[t])
    /\ evicted' = evicted \cup DequeDropped(deque, tentry[t])
    /\ tpc' = [tpc EXCEPT ![t] = "idle"]
    /\ tentry' = [tentry EXCEPT ![t] = NoEntry]
    /\ tret' = [tret EXCEPT ![t] = <<"returned", ReturnValue(tdict[t][1])>>]
    /\ UNCHANGED <<seq, bound, tasks, wpc, assigned, tdict, sessionVars>>
    /\ lastRead' = NoRead
    /\ lock' = "free"
    /\ UNCHANGED flt

\* LogBuffer.append, after the lock is released: post _notify to the loop if
\* one is bound; capture_log_processor then returns the event dict.
CaptureSignal(t) ==
    /\ tpc[t] = "appended"
    /\ callbacks' = IF bound THEN callbacks + 1 ELSE callbacks
    /\ tpc' = [tpc EXCEPT ![t] = "idle"]
    /\ tentry' = [tentry EXCEPT ![t] = NoEntry]
    /\ tret' = [tret EXCEPT ![t] = <<"returned", ReturnValue(tdict[t][1])>>]
    /\ UNCHANGED <<bufferVars, bound, tasks, wpc, assigned, tdict, sessionVars>>
    /\ lastRead' = NoRead
    /\ UNCHANGED <<flt, lock>>

\* A processor that calls next_seq before it extracts, so that a failing
\* record has used up a sequence number.
CaptureRaiseAfterNextSeq(t, ev) ==
    /\ tpc[t] = "idle"
    /\ seq < MaxCaptures
    /\ Raises(ev)
    /\ seq' = NextSeqValue(seq)
    /\ tdict' = [tdict EXCEPT ![t] = <<ev>>]
    /\ tret' = [tret EXCEPT ![t] = <<"raised">>]
    /\ UNCHANGED <<deque, evicted, bridgeVars, tpc, tentry, assigned,
                   sessionVars>>
    /\ lastRead' = NoRead
    /\ UNCHANGED <<flt, lock>>

\* capture_log_processor on a record whose extraction raises: no try/except
\* surrounds it, so the exception leaves the processor before next_seq.
CaptureRaise(t, ev) ==
    /\ tpc[t] = "idle"
    /\ Raises(ev)
    /\ tdict' = [tdict EXCEPT ![t] = <<ev>>]
    /\ tret' = [tret EXCEPT ![t] = <<"raised">>]
    /\ UNCHANGED <<bufferVars, bridgeVars, tpc, tentry, assigned, sessionVars>>
    /\ lastRead' = NoRead
    /\ UNCHANGED <<flt, lock>>

\* ------------------------------------------------------------------- bridge
\* LogBuffer.bind_loop, called once during application startup.
BindLoop ==
    /\ ~bound
    /\ bound' = TRUE
    /\ UNCHANGED <<bufferVars, callbacks, tasks, wpc, producerVars, sessionVars>>
    /\ lastRead' = NoRead
    /\ UNCHANGED <<flt, lock>>

\* LogBuffer._notify, run by the loop: schedules a _do_notify task.
Notify ==
    /\ callbacks > 0
    /\ callbacks' = callbacks - 1
    /\ tasks' = tasks + 1
    /\ UNCHANGED <<bufferVars, bound, wpc, producerVars, sessionVars>>
    /\ lastRead' = NoRead
    /\ UNCHANGED <<flt, lock>>

\* A handler that wakes a single waiter, as Condition.notify() would.
DoNotifyOne ==
    /\ tasks > 0
    /\ tasks' = tasks - 1
    /\ wpc' = IF \E w \in Waiters : wpc[w] = "waiting"
              THEN [wpc EXCEPT ![CHOOSE w \in Waiters : wpc[w] = "waiting"] =
                                   "notified"]
              ELSE wpc
    /\ UNCHANGED <<bufferVars, bound, callbacks, producerVars, sessionVars>>
    /\ lastRead' = NoRead
    /\ UNCHANGED <<flt, lock>>

\* LogBuffer._do_notify: notify_all on the condition releases every coroutine
\* blocked in self._condition.wait().  No stream session is ever among them
\* (see SessionWait).
DoNotify ==
    /\ tasks > 0
    /\ tasks' = tasks - 1
    /\ wpc' = [w \in Waiters |->
                  IF wpc[w] = "waiting" THEN "notified" ELSE wpc[w]]
    /\ UNCHANGED <<bufferVars, bound, callbacks, producerVars, sessionVars>>
    /\ lastRead' = NoRead
    /\ UNCHANGED <<flt, lock>>

\* LogBuffer.wait_for_new(timeout) is called: without a condition the caller
\* sleeps, with one it blocks in self._condition.wait().
WaitForNewCall(w) ==
    /\ wpc[w] \in {"idle", "true", "false"}
    /\ wpc' = [wpc EXCEPT ![w] = IF bound THEN "waiting" ELSE "sleeping"]
    /\ UNCHANGED <<bufferVars, bound, callbacks, tasks, producerVars,
                   sessionVars>>
    /\ lastRead' = NoRead
    /\ UNCHANGED <<flt, lock>>

\* The timeout passes: the sleep ends, or asyncio.timeout cancels the wait;
\* wait_for_new returns False.
WaitForNewTimeout(w) ==
    /\ wpc[w] \in {"waiting", "sleeping"}
    /\ wpc' = [wpc EXCEPT ![w] = "false"]
    /\ UNCHANGED <<bufferVars, bound, callbacks, tasks, producerVars,
                   sessionVars>>
    /\ lastRead' = NoRead
    /\ UNCHANGED <<flt, lock>>

\* A notified caller resumes: wait_for_new returns True.
WaitForNewReturn(w) ==
    /\ wpc[w] = "notified"
    /\ wpc' = [wpc EXCEPT ![w] = "true"]
    /\ UNCHANGED <<bufferVars, bound, callbacks, tasks, producerVars,
                   sessionVars>>
    /\ lastRead' = NoRead
    /\ UNCHANGED <<flt, lock>>

\* ------------------------------------------------------------------ readers
\* A direct call of LogBuffer.get_entries_since(after_seq).
GetEntriesSince(a) ==
    /\ lastRead' = [after_seq   |-> a,
                    entries     |-> get_entries_since(deque, seq, a).entries,
                    current_seq |-> get_entries_since(deque, seq, a).current_seq]
    /\ UNCHANGED <<bufferVars, bridgeVars, producerVars, sessionVars, flt>>
    /\ lock' = "free"

\* ----------------------------------------------------------------- sessions
\* A backfill that moves the cursor only as far as the last entry it keeps.
SessionBackfillCursorAtLastKept(s, level, src) ==
    /\ spc[s] = "init"
    /\ min_level' = [min_level EXCEPT ![s] = MinLevelOf(level)]
    /\ source' = [source EXCEPT ![s] = src]
    /\ LET r == get_entries_since(deque, seq, 0)
           kept == _filter_entries(r.entries, min_level'[s], src)
       IN  /\ last_seq' = [last_seq EXCEPT ![s] =
                             IF kept = <<>> THEN 0 ELSE kept[Len(kept)].seq]
           /\ pending' = [pending EXCEPT ![s] = kept]
    /\ spc' = [spc EXCEPT ![s] = "backfill"]
    /\ UNCHANGED <<bufferVars, bridgeVars, producerVars, emitted, heartbeats>>
    /\ lastRead' = NoRead
    /\ lock' = "free"
    /\ UNCHANGED flt

\* A backfill whose for-loop runs inside the `with self._lock:` block, so the
\* generator yields with the lock held.
SessionBackfillHoldingLock(s, level, src) ==
    /\ spc[s] = "init"
    /\ min_level' = [min_level EXCEPT ![s] = MinLevelOf(level)]
    /\ source' = [source EXCEPT ![s] = src]
    /\ LET r == get_entries_since(deque, seq, 0)
       IN  /\ last_seq' = [last_seq EXCEPT ![s] = r.current_seq]
           /\ pending' = [pending EXCEPT ![s] =
                            _filter_entries(r.entries, min_level'[s], src)]
    /\ spc' = [spc EXCEPT ![s] = "backfill"]
    /\ UNCHANGED <<bufferVars, bridgeVars, producerVars, emitted, heartbeats>>
    /\ lastRead' = NoRead
    /\ UNCHANGED <<flt, lock>>

\* stream_logs is called and _generate starts: last_seq = 0, the backfill
\* read, and the filtered list the for-loop is about to yield.
SessionBackfill(s, level, src) ==
    /\ spc[s] = "init"
    /\ min_level' = [min_level EXCEPT ![s] = MinLevelOf(level)]
    /\ source' = [source EXCEPT ![s] = src]
    /\ LET r == get_entries_since(deque, seq, 0)
       IN  /\ last_seq' = [last_seq EXCEPT ![s] = r.current_seq]
           /\ pending' = [pending EXCEPT ![s] =
                            _filter_entries(r.entries, min_level'[s], src)]
    /\ spc' = [spc EXCEPT ![s] = "backfill"]
    /\ UNCHANGED <<bufferVars, bridgeVars, producerVars, emitted, heartbeats>>
    /\ lastRead' = NoRead
    /\ lock' = "free"
    /\ UNCHANGED flt

\* The generator is finalised: its locals (and the closure's) cease to exist.
SessionLocalsDropped(s) ==
    /\ min_level' = [min_level EXCEPT ![s] = 0]
    /\ source' = [source EXCEPT ![s] = None]
    /\ last_seq' = [last_seq EXCEPT ![s] = 0]
    /\ pending' = [pending EXCEPT ![s] = <<>>]

\* A for-loop that yields its current entry without moving on.
SessionEmitRepeating(s) ==
    /\ spc[s] = "backfill"
    /\ pending[s] # <<>>
    /\ Len(emitted[s]) <= maxlen
    /\ emitted' = [emitted EXCEPT ![s] = Append(@, Head(pending[s]).seq)]
    /\ UNCHANGED <<bufferVars, bridgeVars, producerVars, spc, min_level,
                   source, last_seq, pending, heartbeats>>
    /\ lastRead' = NoRead
    /\ UNCHANGED <<flt, lock>>

\* A for-loop that walks its batch from the newest entry down.
SessionEmitNewestFirst(s) ==
    /\ spc[s] = "backfill"
    /\ pending[s] # <<>>
    /\ emitted' = [emitted EXCEPT
                      ![s] = Append(@, pending[s][Len(pending[s])].seq)]
    /\ pending' = [pending EXCEPT ![s] = SubSeq(@, 1, Len(@) - 1)]
    /\ UNCHANGED <<bufferVars, bridgeVars, producerVars, spc, min_level,
                   source, last_seq, heartbeats>>
    /\ lastRead' = NoRead
    /\ UNCHANGED <<flt, lock>>

\* One `yield ServerSentEventMessage(data=..., event="log")` of a for-loop.
SessionEmit(s) ==
    /\ spc[s] = "backfill"
    /\ pending[s] # <<>>
    /\ emitted' = [emitted EXCEPT ![s] = Append(@, Head(pending[s]).seq)]
    /\ pending' = [pending EXCEPT ![s] = Tail(@)]
    /\ UNCHANGED <<bufferVars, bridgeVars, producerVars, spc, min_level,
                   source, last_seq, heartbeats>>
    /\ lastRead' = NoRead
    /\ UNCHANGED <<flt, lock>>

\* The first iteration of `while True`: the call
\* log_buffer.wait_for_new(after_seq=last_seq, timeout=30.0) passes a keyword
\* that wait_for_new does not declare, so it raises TypeError, which the
\* `except TimeoutError` does not catch: the generator ends with the error.
SessionWait(s) ==
    /\ spc[s] = "backfill"
    /\ pending[s] = <<>>
    /\ ~(WaitCallKeywords \subseteq WaitForNewParams)
    /\ spc' = [spc EXCEPT ![s] = "failed"]
    /\ SessionLocalsDropped(s)
    /\ UNCHANGED <<bufferVars, bridgeVars, producerVars, emitted, heartbeats>>
    /\ lastRead' = NoRead
    /\ UNCHANGED <<flt, lock>>

\* A teardown that ends every open stream at once.
SessionDisconnectAll(s) ==
    /\ spc[s] = "backfill"
    /\ spc' = [u \in Sessions |->
                  IF spc[u] = "backfill" THEN "closed" ELSE spc[u]]
    /\ min_level' = [u \in Sessions |->
                        IF spc[u] = "backfill" THEN 0 ELSE min_level[u]]
    /\ source' = [u \in Sessions |->
                     IF spc[u] = "backfill" THEN None ELSE source[u]]
    /\ last_seq' = [u \in Sessions |->
                       IF spc[u] = "backfill" THEN 0 ELSE last_seq[u]]
    /\ pending' = [u \in Sessions |->
                      IF spc[u] = "backfill" THEN <<>> ELSE pending[u]]
    /\ UNCHANGED <<bufferVars, bridgeVars, producerVars, emitted, heartbeats>>
    /\ lastRead' = NoRead
    /\ UNCHANGED <<flt, lock>>

\* The client disconnects (or the task is cancelled) while the generator is
\* suspended at a yield.
SessionDisconnect(s) ==
    /\ spc[s] = "backfill"
    /\ spc' = [spc EXCEPT ![s] = "closed"]
    /\ SessionLocalsDropped(s)
    /\ UNCHANGED <<bufferVars, bridgeVars, producerVars, emitted, heartbeats>>
    /\ lastRead' = NoRead
    /\ UNCHANGED <<flt, lock>>

\* ------------------------------------------------------------ specification
Next ==
    \/ \E t \in Threads : \E ev \in EventDicts(t) : CaptureNextSeq(t, ev)
    \/ \E t \in Threads : CaptureAppend(t)
    \/ \E t \in Threads : CaptureSignal(t)
    \/ BindLoop
    \/ Notify
    \/ DoNotify
    \/ \E a \in 0..MaxCaptures : GetEntriesSince(a)
    \/ \E s \in OneSession, level \in LevelParams, src \in SourceParams :
           SessionBackfill(s, level, src)
    \/ \E s \in OneSession : SessionEmit(s)
    \/ \E s \in OneSession : SessionWait(s)
    \/ \E s \in OneSession : SessionDisconnect(s)

Spec == Init /\ [][Next]_vars

\* Captures run one at a time: a capture starts only when every other thread
\* has finished its own (next_seq, append and the wakeup post).
SeqCaptureNextSeq(t, ev) ==
    /\ \A u \in Threads \ {t} : tpc[u] = "idle"
    /\ CaptureNextSeq(t, ev)

NextSeq ==
    \/ \E t \in Threads : \E ev \in EventDicts(t) : SeqCaptureNextSeq(t, ev)
    \/ \E t \in Threads : CaptureAppend(t)
    \/ \E t \in Threads : CaptureSignal(t)
    \/ BindLoop
    \/ Notify
    \/ DoNotify
    \/ \E a \in 0..MaxCaptures : GetEntriesSince(a)
    \/ \E s \in OneSession, level \in LevelParams, src \in SourceParams :
           SessionBackfill(s, level, src)
    \/ \E s \in OneSession : SessionEmit(s)
    \/ \E s \in OneSession : SessionWait(s)
    \/ \E s \in OneSession : SessionDisconnect(s)

SpecSeq == Init /\ [][NextSeq]_vars

\* The concrete scenario: a LogBuffer of capacity 3 and five captures made one
\* after the other.
Scenario == [capacity |-> 3, captures |-> 5]

\* next_seq of a capture of the scenario.
ScenarioCaptureNextSeq(t, ev) ==
    /\ \A u \in Threads : tpc[u] = "idle"
    /\ seq < Scenario.captures
    /\ ~Raises(ev)
    /\ tdict' = [tdict EXCEPT ![t] = <<ev>>]
    /\ tret' = [tret EXCEPT ![t] = <<>>]
    /\ seq' = NextSeqValue(seq)
    /\ tentry' = [tentry EXCEPT ![t] = LogEntry(seq', ev)]
    /\ assigned' = [assigned EXCEPT ![t] = Append(@, seq')]
    /\ tpc' = [tpc EXCEPT ![t] = "allocated"]
    /\ UNCHANGED <<deque, evicted, bridgeVars, sessionVars>>
    /\ lastRead' = NoRead
    /\ lock' = "free"
    /\ UNCHANGED flt

\* LogBuffer.append of a capture of the scenario.
ScenarioCaptureAppend(t) ==
    /\ tpc[t] = "allocated"
    /\ deque' = DequeAppendTo(Scenario.capacity, deque, tentry[t])
    /\ evicted' = evicted \cup
                      DequeDroppedFrom(Scenario.capacity, deque, tentry[t])
    /\ tpc' = [tpc EXCEPT ![t] = "appended"]
    /\ UNCHANGED <<seq, tentry, assigned, tdict, tret, bridgeVars, sessionVars>>
    /\ lastRead' = NoRead
    /\ lock' = "free"
    /\ UNCHANGED flt

NextScenario ==
    \/ \E t \in Threads : \E ev \in EventDicts(t) : ScenarioCaptureNextSeq(t, ev)
    \/ \E t \in Threads : ScenarioCaptureAppend(t)
    \/ \E t \in Threads : CaptureSignal(t)
    \/ \E a \in 0..Scenario.captures : GetEntriesSince(a)

SpecScenario == Init /\ [][NextScenario]_vars

\* ------------------------------------------------- the filter on its own
\* The longest entry list handed to the filter.
MaxFilterLen == 3

\* Levels and logger names of the entries handed to the filter ("TRACE" is
\* not a key of _LEVEL_ORDER).
FilterEntryKinds ==
    {"DEBUG", "INFO", "ERROR", "TRACE"} \X {<<"a", "x">>, <<"b">>}

\* Entry lists as get_entries_since returns them, numbered from 1.
FilterEntryLists ==
    { [i \in 1..Len(ks) |->
          [seq |-> i, level |-> ks[i][1], logger_name |-> ks[i][2]]] :
        ks \in UNION {[1..m -> FilterEntryKinds] : m \in 0..MaxFilterLen} }

\* The level and source query parameters tried.
FilterLevelParams == {None, "", "info", "INFO", "Error", "bogus"}

FilterSourceParams == {None, <<>>, <<"a">>, <<"a", "x", "y">>}

InitFilter ==
    /\ InitBuffer
    /\ \E es \in FilterEntryLists, l \in FilterLevelParams,
          src \in FilterSourceParams :
           flt = [pc |-> "args", entries |-> es, level |-> l, source |-> src,
                  min_level |-> 0, kept |-> <<>>]

\* stream_logs: min_level = _LEVEL_ORDER.get(level.upper(), 0) if level else 0
FilterRank ==
    /\ flt.pc = "args"
    /\ flt' = [flt EXCEPT !.pc = "ranked", !.min_level = MinLevelOf(flt.level)]
    /\ UNCHANGED <<bufferVars, bridgeVars, producerVars, sessionVars, lastRead,
                   lock>>

\* _generate: _filter_entries(entries, min_level, source)
FilterApply ==
    /\ flt.pc = "ranked"
    /\ flt' = [flt EXCEPT !.pc = "filtered",
                          !.kept = _filter_entries(flt.entries, flt.min_level,
                                                   flt.source)]
    /\ UNCHANGED <<bufferVars, bridgeVars, producerVars, sessionVars, lastRead,
                   lock>>

NextFilter == FilterRank \/ FilterApply

SpecFilter == InitFilter /\ [][NextFilter]_vars

\* ------------------------------------------------------------------ helpers
StrictlyIncreasing(ns) == \A i, j \in 1..Len(ns) : i < j => ns[i] < ns[j]

Min(a, b) == IF a <= b THEN a ELSE b

RECURSIVE SumOver(_, _)
SumOver(S, f) ==
    IF S = {} THEN 0
    ELSE LET x == CHOOSE y \in S : TRUE IN f[x] + SumOver(S \ {x}, f)

\* Every (thread, position) at which next_seq returned a value.
Allocations ==
    {p \in Threads \X (1..MaxCaptures) : p[2] <= Len(assigned[p[1]])}

\* The number of next_seq calls made so far.
Allocated == SumOver(Threads, [t \in Threads |-> Len(assigned[t])])

\* The number of captures whose append has been carried out.
Completed == Allocated - Cardinality({t \in Threads : tpc[t] = "allocated"})

\* ------------------------------------------------------------------- claims
\* C1: after N captures run one after the other, get_entries_since(0) returns
\* exactly min(N, maxlen) entries, in strictly increasing seq order.
C1_SequentialGetSinceZero ==
    (lastRead # NoRead /\ lastRead.after_seq = 0) =>
        /\ Len(lastRead.entries) = Min(Completed, maxlen)
        /\ StrictlyIncreasing(Seqs(lastRead.entries))

\* A read of everything after more captures than the buffer holds.
C1_Witness ==
    /\ lastRead # NoRead
    /\ lastRead.after_seq = 0
    /\ Completed > maxlen
    /\ Len(lastRead.entries) = maxlen

\* C2: under any interleaving of producers and readers the buffer never holds
\* more than maxlen entries.
C2_BoundedSize == Len(deque) <= maxlen

\* A full buffer that has already evicted, with both producers mid-capture.
C2_Witness ==
    /\ Len(deque) = maxlen
    /\ evicted # {}
    /\ \A t \in Threads : tpc[t] # "idle"

\* C3: eviction removes the oldest entries first: every retained entry has a
\* seq greater than the seq of every evicted entry.
C3_EvictsLowestSeqFirst ==
    \A i \in 1..Len(deque) : \A x \in evicted : deque[i].seq > x

\* C4: the seq values handed out to concurrently capturing threads are
\* pairwise distinct (as many values as captures), and each thread receives
\* its values in increasing order.
C4_DistinctOrderedSeqs ==
    /\ \A p, q \in Allocations :
           p # q => assigned[p[1]][p[2]] # assigned[q[1]][q[2]]
    /\ Cardinality({assigned[p[1]][p[2]] : p \in Allocations}) = Allocated
    /\ \A t \in Threads : StrictlyIncreasing(assigned[t])

\* Every capture the bound allows was made, each thread made one, and the
\* threads are inside overlapping captures.
C4_Witness ==
    /\ Allocated = MaxCaptures
    /\ \A t \in Threads : Len(assigned[t]) >= 1 /\ tpc[t] = "allocated"

\* C5: the buffer holds its entries in strictly increasing seq order in every
\* reachable state (so every read returns them in that order).
C5_DequeSortedBySeq == StrictlyIncreasing(Seqs(deque))

\* C6: sequencing and insertion are atomic together: no read returns a
\* counter value k as current_seq while the entry with seq k is allocated but
\* not yet inserted.
C6_SeqAndInsertAtomic ==
    lastRead # NoRead =>
        \A t \in Threads :
            ~(tpc[t] = "allocated" /\ tentry[t].seq = lastRead.current_seq)

\* C7: the data frames a session emits carry increasing seq values: no entry
\* is emitted after an entry with a larger seq.
C7_SessionEmitsInSeqOrder ==
    \A s \in Sessions : StrictlyIncreasing(emitted[s])

\* C8: a session delivers no entry twice: every seq is in at most one of the
\* data frames it emits.
C8_NoDuplicateFrames ==
    \A s \in Sessions : \A i, j \in 1..Len(emitted[s]) :
        i # j => emitted[s][i] # emitted[s][j]

\* A session that has sent several data frames while producers are capturing.
C8_Witness ==
    \E s \in Sessions :
        /\ Len(emitted[s]) >= 2
        /\ \E t \in Threads : tpc[t] = "allocated"

\* The positions of the retained entries a read after cursor a must return.
RetainedAfter(a) == {i \in 1..Len(deque) : deque[i].seq > a}

\* The k-th smallest member of a set of positions.
KthOf(I, k) == CHOOSE i \in I : Cardinality({j \in I : j <= i}) = k

\* C9: get_entries_since(a) returns exactly the retained entries with
\* seq > a, in buffer order: none with seq <= a, none with seq > a omitted;
\* a cursor older than the oldest retained entry yields all retained entries.
C9_GetSinceExact ==
    lastRead # NoRead =>
        LET a == lastRead.after_seq
            r == lastRead.entries
        IN  /\ \A k \in 1..Len(r) : r[k].seq > a
            /\ Len(r) = Cardinality(RetainedAfter(a))
            /\ \A k \in 1..Len(r) : r[k] = deque[KthOf(RetainedAfter(a), k)]
            /\ (\A i \in 1..Len(deque) : a < deque[i].seq) => r = deque

\* A read from a cursor inside the retained range: part of the buffer is
\* returned and part is held back.
C9_Witness ==
    /\ lastRead # NoRead
    /\ lastRead.after_seq >= 1
    /\ lastRead.entries # <<>>
    /\ Len(lastRead.entries) < Len(deque)

\* C10: get_entries_since(a) with a >= the counter returns no entry and the
\* counter as current_seq, and leaves the counter and the buffer unchanged.
C10_GetSinceAtOrPastCounter ==
    [][(lastRead' # NoRead /\ lastRead'.after_seq >= seq) =>
           /\ lastRead'.entries = <<>>
           /\ lastRead'.current_seq = seq
           /\ seq' = seq
           /\ deque' = deque]_vars

\* A read at the counter while the entry carrying that seq is retained.
C10_Witness ==
    /\ lastRead # NoRead
    /\ lastRead.after_seq = seq
    /\ \E i \in 1..Len(deque) : deque[i].seq = seq

\* C11: with capacity 3 and five captures made in sequence (seq 1..5),
\* get_entries_since(0) returns the entries with seq 3, 4, 5,
\* get_entries_since(3) returns those with seq 4, 5 and get_entries_since(5)
\* returns the empty list.
C11_ScenarioReads ==
    (lastRead # NoRead /\ Completed = Scenario.captures) =>
        /\ lastRead.after_seq = 0 => Seqs(lastRead.entries) = <<3, 4, 5>>
        /\ lastRead.after_seq = 3 => Seqs(lastRead.entries) = <<4, 5>>
        /\ lastRead.after_seq = 5 => lastRead.entries = <<>>

\* The read after cursor 3 once all five captures are in.
C11_Witness ==
    /\ lastRead # NoRead
    /\ Completed = Scenario.captures
    /\ lastRead.after_seq = 3
    /\ Len(lastRead.entries) = 2

\* The name begins with the prefix, character by character.
HasPrefix(name, prefix) ==
    /\ Len(prefix) <= Len(name)
    /\ \A k \in 1..Len(prefix) : name[k] = prefix[k]

\* The filtering contract for one entry.
Passes(e, minLevel, src) ==
    /\ LevelRank(e.level) >= minLevel
    /\ (src = None \/ src = <<>> \/ HasPrefix(e.logger_name, src))

\* The positions of the entries of the filter's input that pass the contract.
PassingPositions ==
    {i \in 1..Len(flt.entries) : Passes(flt.entries[i], flt.min_level, flt.source)}

Levels(es) == [i \in 1..Len(es) |-> es[i].level]

\* C12: _filter_entries keeps an entry if and only if its level rank is at
\* least min_level and the source prefix is empty, absent or a prefix of its
\* logger name; the kept entries stay in their original order; levels
\* [DEBUG, INFO, ERROR] with min_level INFO yield [INFO, ERROR].
C12_FilterContract ==
    flt.pc = "filtered" =>
        /\ Len(flt.kept) = Cardinality(PassingPositions)
        /\ \A k \in 1..Len(flt.kept) :
               flt.kept[k] = flt.entries[KthOf(PassingPositions, k)]
        /\ (/\ Levels(flt.entries) = <<"DEBUG", "INFO", "ERROR">>
            /\ flt.min_level = _LEVEL_ORDER["INFO"]
            /\ flt.source = None)
               => Levels(flt.kept) = <<"INFO", "ERROR">>

\* The example of the claim, filtered.
C12_Witness ==
    /\ flt.pc = "filtered"
    /\ Levels(flt.entries) = <<"DEBUG", "INFO", "ERROR">>
    /\ flt.min_level = _LEVEL_ORDER["INFO"]
    /\ flt.source = None
    /\ Len(flt.kept) = 2

\* The spellings of the level parameter that name a level when case is
\* ignored, with the level each one names.
RecognisedLevels == [info |-> "INFO", INFO |-> "INFO", Error |-> "ERROR"]

\* The entry at position i of the filter's input is among the kept entries.
Kept(i) == \E k \in 1..Len(flt.kept) : flt.kept[k] = flt.entries[i]

\* C19: the level parameter is matched case-insensitively against the level
\* names; an unrecognised or absent level gives min_level 0, under which no
\* entry is filtered out by level; an absent source filters nothing by
\* logger name.
C19_LevelAndSourceParameters ==
    flt.pc = "filtered" =>
        /\ flt.level \in DOMAIN RecognisedLevels =>
               flt.min_level = _LEVEL_ORDER[RecognisedLevels[flt.level]]
        /\ flt.level \notin DOMAIN RecognisedLevels =>
               /\ flt.min_level = 0
               /\ \A i \in 1..Len(flt.entries) :
                      (flt.source = None \/ flt.source = <<>> \/
                       HasPrefix(flt.entries[i].logger_name, flt.source))
                          => Kept(i)
        /\ flt.source = None =>
               \A i \in 1..Len(flt.entries) :
                   LevelRank(flt.entries[i].level) >= flt.min_level => Kept(i)

\* An unrecognised level and no source: entries of every level, including
\* the lowest, come through.
C19_Witness ==
    /\ flt.pc = "filtered"
    /\ flt.level = "bogus"
    /\ flt.source = None
    /\ Levels(flt.entries) = <<"DEBUG", "TRACE", "ERROR">>
    /\ flt.kept = flt.entries


\* ------------------------------------------------- several open connections
\* Every session may connect, each with its own parameters, while the
\* threads capture one record at a time.
NextSessions ==
    \/ \E t \in Threads : \E ev \in EventDicts(t) : SeqCaptureNextSeq(t, ev)
    \/ \E t \in Threads : CaptureAppend(t)
    \/ \E t \in Threads : CaptureSignal(t)
    \/ \E s \in Sessions, level \in LevelParams, src \in SourceParams :
           SessionBackfill(s, level, src)
    \/ \E s \in Sessions : SessionEmit(s)
    \/ \E s \in Sessions : SessionWait(s)
    \/ \E s \in Sessions : SessionDisconnect(s)

SpecSessions == Init /\ [][NextSessions]_vars

\* ------------------------------------------------------ the buffer's lock
\* The same blocks with the acquisition of self._lock as a step of its own:
\* a party that reaches `with self._lock:` waits until the lock is free.
LockUsers == Threads \cup Sessions

\* Party p is at a `with self._lock:` statement.
AtLockBlock(p) ==
    \/ p \in Threads /\ (tpc[p] = "allocated" \/
                          (tpc[p] = "idle" /\ seq < MaxCaptures))
    \/ p \in Sessions /\ spc[p] = "init"

\* threading.Lock.__enter__: p gets the lock when nobody holds it.
LockAcquire(p) ==
    /\ lock = "free"
    /\ AtLockBlock(p)
    /\ lock' = p
    /\ lastRead' = NoRead
    /\ UNCHANGED <<bufferVars, bridgeVars, producerVars, sessionVars, flt>>

\* The body of a block and the release that ends it, by the holder.
LockedNextSeq(t, ev) == lock = t /\ CaptureNextSeq(t, ev)

LockedAppend(t) == lock = t /\ CaptureAppend(t)

LockedBackfill(s, level, src) == lock = s /\ SessionBackfill(s, level, src)

NextLock ==
    \/ \E p \in LockUsers : LockAcquire(p)
    \/ \E t \in Threads : \E ev \in EventDicts(t) : LockedNextSeq(t, ev)
    \/ \E t \in Threads : LockedAppend(t)
    \/ \E t \in Threads : CaptureSignal(t)
    \/ \E s \in Sessions, level \in LevelParams, src \in SourceParams :
           LockedBackfill(s, level, src)
    \/ \E s \in Sessions : SessionEmit(s)
    \/ \E s \in Sessions : SessionWait(s)
    \/ \E s \in Sessions : SessionDisconnect(s)

SpecLock == Init /\ [][NextLock]_vars

\* ------------------------------------------------- the notification bridge
\* The capturing threads, the loop's callbacks and tasks, and direct callers
\* of wait_for_new; no stream session.
NextBridge ==
    \/ \E t \in Threads : \E ev \in EventDicts(t) : CaptureNextSeq(t, ev)
    \/ \E t \in Threads : CaptureAppend(t)
    \/ \E t \in Threads : CaptureSignal(t)
    \/ BindLoop
    \/ Notify
    \/ DoNotify
    \/ \E w \in Waiters : WaitForNewCall(w)
    \/ \E w \in Waiters : WaitForNewTimeout(w)
    \/ \E w \in Waiters : WaitForNewReturn(w)

SpecBridge == Init /\ [][NextBridge]_vars

\* ------------------------------------------- capture of arbitrary records
\* Event dicts as structlog may hand them over: with or without a level, with
\* extra keys, and with values that cannot be stringified.
CaptureEventDicts ==
    { [level |-> "info", logger |-> <<"a">>,
       extra |-> << <<"event", "hello">>, <<"user", "u1">>,
                    <<"_record", "rec">>, <<"count", "int7">>,
                    <<"_private", "none">> >>],
      [level |-> None, logger |-> <<"b">>,
       extra |-> << <<"timestamp", "ts">>, <<"_from_structlog", "true">>,
                    <<"_record", Unprintable>> >>],
      [level |-> "info", logger |-> <<"a">>,
       extra |-> << <<"user", "u1">>, <<"obj", Unprintable>> >>],
      [level |-> Unprintable, logger |-> <<"b">>, extra |-> <<>>] }

NextCapture ==
    \/ \E t \in Threads : \E ev \in CaptureEventDicts : CaptureNextSeq(t, ev)
    \/ \E t \in Threads : \E ev \in CaptureEventDicts : CaptureRaise(t, ev)
    \/ \E t \in Threads : CaptureAppend(t)
    \/ \E t \in Threads : CaptureSignal(t)
    \/ BindLoop

SpecCapture == Init /\ [][NextCapture]_vars

\* ------------------------------------------------- the session's wait rounds
\* The session has yielded its whole backfill and is at the top of
\* `while True`, about to make (or inside) its wait call.
AtWait(s) == spc[s] = "backfill" /\ pending[s] = <<>>

\* A step of session s itself.
SessionStep(s) ==
    <<spc[s], last_seq[s], pending[s], emitted[s], heartbeats[s]>>' #
        <<spc[s], last_seq[s], pending[s], emitted[s], heartbeats[s]>>

\* The step by which the wait of session s ends for a reason other than the
\* client going away.
WaitEnds(s) == AtWait(s) /\ SessionStep(s) /\ spc'[s] # "closed"

\* What get_entries_since(cursor) returns for session s in the current state.
NewFor(s) == get_entries_since(deque, seq, last_seq[s])

\* C13: a session whose wait ends while the buffer holds nothing beyond its
\* cursor leaves the wait by timeout: the round emits one heartbeat frame and
\* no data frame, and the session goes on streaming.
C13_IdleWaitEndsInHeartbeat ==
    [][\A s \in Sessions :
          (WaitEnds(s) /\ NewFor(s).entries = <<>>)
              => /\ spc'[s] # "failed"
                 /\ heartbeats'[s] = heartbeats[s] + 1
                 /\ emitted'[s] = emitted[s]]_vars

\* C14: with the bridge bound, a session whose wait ends after a capture
\* completed beyond its cursor has been released to read: the round's
\* get_entries_since(cursor) returns that entry, so the session holds the
\* filtered new entries for delivery and its cursor is the counter.
C14_BoundWaitEndsInDelivery ==
    [][\A s \in Sessions :
          (bound /\ WaitEnds(s) /\ NewFor(s).entries # <<>>)
              => /\ spc'[s] # "failed"
                 /\ last_seq'[s] = NewFor(s).current_seq
                 /\ pending'[s] = _filter_entries(NewFor(s).entries,
                                                  min_level[s], source[s])]_vars

\* While bind_loop has not been called no wakeup is posted or handled.
UnboundPostsNothing ==
    [][(~bound /\ ~bound') => (callbacks' = callbacks /\ tasks' = tasks)]_vars

\* C16: while bind_loop has not been called a completed append posts no
\* wakeup, and a session whose wait ends (by the fallback sleep's timeout)
\* with an entry captured meanwhile still retained gets that entry from its
\* next get_entries_since(cursor) and holds it, filtered, for delivery.
C16_UnboundPollDelivers ==
    [][/\ (~bound /\ ~bound') => (callbacks' = callbacks /\ tasks' = tasks)
       /\ \A s \in Sessions :
             (~bound /\ WaitEnds(s) /\ NewFor(s).entries # <<>>)
                 => /\ spc'[s] # "failed"
                    /\ pending'[s] = _filter_entries(NewFor(s).entries,
                                                     min_level[s], source[s])]_vars


\* C15: no producer step ever waits for a session: in every reachable state,
\* whatever the sessions are doing, a thread that may start a capture can
\* allocate, a thread holding a sequence number can insert, and a thread that
\* has inserted can post its wakeup and return.
C15_ProducersNeverBlocked ==
    \A t \in Threads :
        /\ (tpc[t] = "idle" /\ seq < MaxCaptures)
               => ENABLED (\E ev \in EventDicts(t) : CaptureNextSeq(t, ev))
        /\ tpc[t] = "allocated" => ENABLED CaptureAppend(t)
        /\ tpc[t] = "appended" => ENABLED CaptureSignal(t)

\* A thread is between next_seq and append while a session is suspended in
\* the middle of yielding its batch.
C15_Witness ==
    \E t \in Threads, s \in Sessions :
        /\ tpc[t] = "allocated"
        /\ spc[s] = "backfill"
        /\ emitted[s] # <<>>
        /\ pending[s] # <<>>


\* A call of capture_log_processor by thread t has ended.
CallEnded(t) == tdict[t] # <<>> /\ tpc[t] = "idle" /\ tret[t] # <<>>

\* C17: every call of capture_log_processor, on whatever record, ends by
\* returning the record it was given, with no key added, removed or changed.
C17_PassThrough ==
    \A t \in Threads :
        (tdict[t] # <<>> /\ tpc[t] = "idle")
            => tret[t] = <<"returned", tdict[t][1]>>

\* C18: capture_log_processor never throws: a call on a record whose
\* extraction fails ends by returning that record, and no call ends with an
\* exception.
C18_NeverThrows ==
    \A t \in Threads :
        /\ tret[t] # <<"raised">>
        /\ (CallEnded(t) /\ Raises(tdict[t][1])) => tret[t][1] = "returned"


\* What session s holds: its position, cursor, batch and the frames it sent.
SessionState(s) ==
    <<spc[s], min_level[s], source[s], last_seq[s], pending[s], emitted[s],
      heartbeats[s]>>

\* C20: a disconnect can close a session at every point at which it is
\* streaming; a closed session reads nothing and emits nothing any more; and
\* the step that closes it changes neither the buffer, the counter, the
\* bridge, any producer nor any other session.
C20_DisconnectClosesAndIsolates ==
    [][\A s \in Sessions :
          /\ spc[s] = "backfill" => ENABLED SessionDisconnect(s)
          /\ spc[s] = "closed" => SessionState(s)' = SessionState(s)
          /\ (spc[s] # "closed" /\ spc'[s] = "closed")
                 => /\ UNCHANGED <<bufferVars, bridgeVars, producerVars>>
                    /\ emitted'[s] = emitted[s]
                    /\ heartbeats'[s] = heartbeats[s]
                    /\ \A u \in Sessions \ {s} :
                           SessionState(u)' = SessionState(u)]_vars

\* One session has been closed while another is in the middle of its batch
\* and a producer is in the middle of a capture.
C20_Witness ==
    \E s, u \in Sessions :
        /\ spc[s] = "closed"
        /\ spc[u] = "backfill"
        /\ emitted[u] # <<>>
        /\ pending[u] # <<>>
        /\ \E t \in Threads : tpc[t] = "allocated"


\* C21: what get_entries_since returns is one snapshot of the buffer: the
\* current_seq is the counter of the very state the entries are taken from,
\* every returned entry is retained in that state, and no returned entry
\* has a seq above the returned current_seq.
C21_ConsistentSnapshot ==
    lastRead # NoRead =>
        /\ lastRead.current_seq = seq
        /\ \A k \in 1..Len(lastRead.entries) :
               /\ lastRead.entries[k].seq <= lastRead.current_seq
               /\ \E i \in 1..Len(deque) : deque[i] = lastRead.entries[k]

\* A read that returns the entry with the newest seq while another capture
\* is between next_seq and append.
C21_Witness ==
    /\ lastRead # NoRead
    /\ \E k \in 1..Len(lastRead.entries) : lastRead.entries[k].seq + 1 = seq
    /\ \E t \in Threads : tpc[t] = "allocated"


\* The step in which session s connects and makes its backfill read.
BackfillStep(s) == spc[s] = "init" /\ spc'[s] = "backfill"

\* The positions of the entries of es that pass the filter (minLevel, src).
PassingIn(es, minLevel, src) ==
    {i \in 1..Len(es) : Passes(es[i], minLevel, src)}

\* The seq values session s has sent as data frames followed by those of the
\* entries its running for-loop still holds.
FramesDue(s) == emitted[s] \o [i \in 1..Len(pending[s]) |-> pending[s][i].seq]

\* C22: a session backfills once, when it connects: the read is
\* get_entries_since(0), the cursor becomes the returned current_seq whether
\* or not anything is returned or passes, the batch to emit is exactly the
\* returned entries that pass the session's filter, in the returned order,
\* and it is emitted frame by frame in that order.
C22_BackfillOnceOnConnect ==
    [][\A s \in Sessions :
          /\ spc[s] # "init" => spc'[s] # "init"
          /\ BackfillStep(s) =>
                 LET r == get_entries_since(deque, seq, 0)
                     I == PassingIn(r.entries, min_level'[s], source'[s])
                 IN  /\ last_seq'[s] = r.current_seq
                     /\ emitted'[s] = <<>>
                     /\ Len(pending'[s]) = Cardinality(I)
                     /\ \A k \in 1..Cardinality(I) :
                            pending'[s][k] = r.entries[KthOf(I, k)]
          /\ (spc[s] = "backfill" /\ spc'[s] = "backfill")
                 => /\ FramesDue(s)' = FramesDue(s)
                    /\ Len(emitted'[s]) <= Len(emitted[s]) + 1
                    /\ last_seq'[s] = last_seq[s]]_vars

\* A session that connected with a level filter has sent a frame of its
\* backfill, holds another, and an entry of the read did not pass.
C22_Witness ==
    \E s \in Sessions :
        /\ spc[s] = "backfill"
        /\ min_level[s] > 0
        /\ emitted[s] # <<>>
        /\ pending[s] # <<>>
        /\ \E i \in 1..Len(deque) : ~Passes(deque[i], min_level[s], source[s])


\* The entry that was built for sequence number k.
EntryOf(k) ==
    LET t  == CHOOSE u \in Threads :
                  \E i \in 1..Len(assigned[u]) : assigned[u][i] = k
        ev == CHOOSE d \in EventDicts(t) : TRUE
    IN  LogEntry(k, ev)

C24_RoundAfterWake ==
    [][\A s \in Sessions :
          WaitEnds(s) =>
              /\ spc'[s] # "failed"
              /\ NewFor(s).entries = <<>>
                     => /\ heartbeats'[s] = heartbeats[s] + 1
                        /\ pending'[s] = <<>>
                        /\ last_seq'[s] = last_seq[s]
              /\ NewFor(s).entries # <<>>
                     => /\ heartbeats'[s] = heartbeats[s]
                        /\ last_seq'[s] = NewFor(s).current_seq]_vars

\* C25: after its backfill a session goes on waiting and reading: no wait it
\* starts is refused by wait_for_new, and the session never ends through an
\* error raised in its own loop, only through a disconnect.
C25_LoopNeverFails ==
    \A s \in Sessions : spc[s] \in {"init", "backfill", "closed"}

\* C26: a session's wait ends even when no wakeup reaches it, and the session
\* then reads: every retained entry beyond its cursor that passes its filter
\* is in the batch it holds after the wait.
C26_MissedSignalStillReads ==
    [][\A s \in Sessions :
          (WaitEnds(s) /\ callbacks = 0 /\ tasks = 0)
              => /\ spc'[s] # "failed"
                 /\ \A i \in 1..Len(deque) :
                        (/\ deque[i].seq > last_seq[s]
                         /\ Passes(deque[i], min_level[s], source[s]))
                            => \E k \in 1..Len(pending'[s]) :
                                   pending'[s][k] = deque[i]]_vars


\* C28: a session that wakes once after several captures completed beyond
\* its cursor gets them all from its single read: the batch it then holds
\* has one entry for each retained entry beyond the cursor that passes its
\* filter, however many wakeups were posted for them.
C28_CoalescedWakeReadsAll ==
    [][\A s \in Sessions :
          (WaitEnds(s) /\ Len(NewFor(s).entries) >= 2)
              => /\ spc'[s] # "failed"
                 /\ Len(pending'[s]) =
                        Cardinality(PassingIn(NewFor(s).entries,
                                              min_level[s], source[s]))]_vars


\* C27: the step in which _do_notify handles a signal releases every caller
\* that is blocked on the condition at that moment: none of them is still
\* blocked afterwards.
C27_NotifyReleasesEveryWaiter ==
    [][tasks' < tasks =>
           \A w \in Waiters : wpc[w] = "waiting" => wpc'[w] = "notified"]_vars

\* Two callers were blocked on the condition and one handled signal has
\* released them both.
C27_Witness ==
    /\ \A w \in Waiters : wpc[w] = "notified"
    /\ Completed = 1
    /\ callbacks = 0
    /\ tasks = 0

\* The seq values of the entries that have been inserted into the deque.
InsertedSeqs == {deque[i].seq : i \in 1..Len(deque)} \cup evicted

\* C29: a capture posts its wakeup only after it has inserted its entry, so
\* a waiter is released only when an inserted entry (retained or evicted
\* since) stands behind every wakeup that has been posted.
C29_InsertBeforeWakeup ==
    [][/\ callbacks' > callbacks =>
              \E t \in Threads : /\ tpc[t] = "appended"
                                 /\ tpc'[t] = "idle"
                                 /\ tentry[t].seq \in InsertedSeqs
       /\ (\E w \in Waiters : wpc[w] = "waiting" /\ wpc'[w] = "notified")
              => /\ InsertedSeqs # {}
                 /\ \A t \in Threads :
                        tpc[t] = "allocated" =>
                            \E k \in InsertedSeqs : k # tentry[t].seq]_vars

\* A waiter has been released by the wakeup of a capture whose entry is in
\* the buffer, while the next capture has its seq but is not inserted yet.
C29_Witness ==
    /\ \E w \in Waiters : wpc[w] = "notified"
    /\ Len(deque) = 1
    /\ \E t \in Threads : tpc[t] = "allocated"


\* Session s is suspended at a yield: it has sent a frame of its batch and
\* has not been resumed past its loop.
Suspended(s) == spc[s] = "backfill" /\ emitted[s] # <<>>

\* The lock is held by a party that is running inside its block (and so
\* releases it without waiting for anybody).
HeldByRunning == lock # "free" /\ ~(lock \in Sessions /\ Suspended(lock))

\* The next step of the capture thread t is making.
ProducerStep(t) ==
    \/ LockAcquire(t)
    \/ \E ev \in EventDicts(t) : LockedNextSeq(t, ev)
    \/ LockedAppend(t)
    \/ CaptureSignal(t)

\* C30: a suspended session never holds the buffer's lock, and nothing it
\* holds stands in the way of anyone else: while sessions are suspended and
\* no running party is inside a lock block, every producer with work to do
\* and every session that is connecting can take its next step.
C30_NoLockWhileSuspended ==
    \A s \in Sessions :
        Suspended(s) =>
            /\ lock # s
            /\ ~HeldByRunning =>
                   /\ \A t \in Threads :
                          (tpc[t] # "idle" \/ seq < MaxCaptures)
                              => ENABLED ProducerStep(t)
                   /\ \A u \in Sessions \ {s} :
                          spc[u] = "init"
                              => ENABLED (LockAcquire(u) \/
                                          \E l \in LevelParams,
                                             src \in SourceParams :
                                              LockedBackfill(u, l, src))

\* A session is paused between two frames while a thread is inside the
\* lock block of its append and the other session is about to connect.
C30_Witness ==
    \E s, u \in Sessions, t \in Threads :
        /\ Suspended(s)
        /\ pending[s] # <<>>
        /\ lock = t
        /\ tpc[t] = "allocated"
        /\ spc[u] = "init"


\* C31: the counter starts at 0 and is the number of next_seq calls made so
\* far: each call adds exactly 1 and returns the new value, so the values
\* handed out are 1..counter, each once, and neither an append, an eviction
\* nor a read changes the counter.
C31_CounterCountsAllocations ==
    /\ seq = Allocated
    /\ {assigned[p[1]][p[2]] : p \in Allocations} = 1..seq
    /\ \A t \in Threads : tpc[t] = "allocated" => tentry[t].seq <= seq

\* Every capture has been made, entries have been evicted, and a read is
\* being answered.
C31_Witness ==
    /\ seq = MaxCaptures
    /\ Completed = MaxCaptures
    /\ evicted # {}
    /\ lastRead # NoRead
    /\ lastRead.entries # <<>>


\* The reserved keys, as the contract lists them.
ReservedKeys ==
    {"event", "level", "timestamp", "_logger", "_record", "_from_structlog"}

\* The keys of an event dict.
DictKeys(ev) ==
    (IF ev.level = None THEN {} ELSE {"level"}) \cup {"_logger"} \cup
        {Extra(ev)[i][1] : i \in 1..Len(Extra(ev))}

\* The keys of the fields map of an entry.
FieldKeys(e) == {e.fields[i][1] : i \in 1..Len(e.fields)}

\* C32: the fields map of a captured entry has exactly the keys of the log
\* record that are not reserved: no reserved key is in it, no other key of
\* the record is missing, each key occurs once, and every retained entry is
\* free of reserved keys.
C32_FieldsAreTheUnreservedKeys ==
    /\ \A t \in Threads :
           tpc[t] # "idle" =>
               /\ FieldKeys(tentry[t]) = DictKeys(tdict[t][1]) \ ReservedKeys
               /\ Len(tentry[t].fields) = Cardinality(FieldKeys(tentry[t]))
    /\ \A i \in 1..Len(deque) : FieldKeys(deque[i]) \cap ReservedKeys = {}

\* An entry was captured from a record that has reserved keys, among them
\* _record, next to keys that are not reserved.
C32_Witness ==
    \E t \in Threads :
        /\ tpc[t] = "appended"
        /\ "_record" \in DictKeys(tdict[t][1])
        /\ "_private" \in FieldKeys(tentry[t])
        /\ \E i \in 1..Len(deque) : deque[i] = tentry[t]


\* The step in which a call of capture_log_processor by thread t ends with
\* the exception of a failed extraction.
RaiseStep(t) ==
    /\ tret'[t] = <<"raised">>
    /\ <<tdict[t], tret[t]>> # <<tdict'[t], tret'[t]>>

\* C37: a capture that fails while extracting or stringifying changes
\* nothing of the buffer: the counter keeps its value, no entry is inserted,
\* none is evicted and no wakeup is posted.
C37_FailedCaptureLeavesBuffer ==
    [][\A t \in Threads :
          RaiseStep(t) =>
              /\ seq' = seq
              /\ deque' = deque
              /\ evicted' = evicted
              /\ callbacks' = callbacks
              /\ tasks' = tasks
              /\ assigned' = assigned]_vars

\* A capture has failed after others had filled the buffer, with the bridge
\* bound, and the seq values handed out so far are still 1..counter.
C37_Witness ==
    /\ \E t \in Threads : tret[t] = <<"raised">>
    /\ bound
    /\ Len(deque) = maxlen
    /\ seq = Allocated
    /\ seq < MaxCaptures


\* C33: a session's cursor is never at or beyond the seq of an entry that
\* is yet to be inserted, so that no entry can enter the buffer behind the
\* cursor and be lost to the session without having been evicted.
C33_NothingInsertedBehindCursor ==
    \A s \in Sessions : \A t \in Threads :
        (spc[s] = "backfill" /\ tpc[t] = "allocated")
            => last_seq[s] < tentry[t].seq

\* C34: a session's cursor is 0 until its first read, never exceeds the
\* buffer's counter, and does not decrease while the session lives.
C34_CursorMonotoneAndBounded ==
    [][\A s \in Sessions :
          /\ spc[s] = "init" => last_seq[s] = 0
          /\ last_seq[s] <= seq
          /\ last_seq'[s] <= seq'
          /\ spc'[s] = "backfill" => last_seq'[s] >= last_seq[s]]_vars

\* A session whose backfill moved its cursor off 0 and behind which the
\* counter has moved on since.
C34_Witness ==
    \E s \in Sessions :
        /\ spc[s] = "backfill"
        /\ last_seq[s] > 0
        /\ last_seq[s] < seq
        /\ emitted[s] # <<>>

\* C35: the round after a wake in which get_entries_since(cursor) returns
\* entries of which none passes the session's filter emits neither a data
\* frame nor a heartbeat, takes the returned current_seq as cursor, and
\* leaves the session streaming.
C35_AllFilteredRoundIsSilent ==
    [][\A s \in Sessions :
          (/\ WaitEnds(s)
           /\ NewFor(s).entries # <<>>
           /\ PassingIn(NewFor(s).entries, min_level[s], source[s]) = {})
              => /\ spc'[s] = "backfill"
                 /\ pending'[s] = <<>>
                 /\ emitted'[s] = emitted[s]
                 /\ heartbeats'[s] = heartbeats[s]
                 /\ last_seq'[s] = NewFor(s).current_seq]_vars


\* C36: a session that reaches the wait while the buffer already holds an
\* entry beyond its cursor, with no wakeup on its way, is held in the wait:
\* when its wait ends it is by the call returning, and the session goes on
\* to the read that returns that entry.
C36_WakeupNotRemembered ==
    [][\A s \in Sessions :
          (/\ WaitEnds(s) /\ NewFor(s).entries # <<>>
           /\ callbacks = 0 /\ tasks = 0)
              => /\ spc'[s] # "failed"
                 /\ last_seq'[s] = NewFor(s).current_seq]_vars

====
